---- MODULE Spec2Model ----
(***************************************************************************)
(* Message relay of src/api.py: the message store and account ledger, the  *)
(* getUpdates cursor protocol, the background retention / eviction thread, *)
(* the webhook notifier, and the history and download handlers.            *)
(*                                                                         *)
(* Storage is counted in abstract units: the three size constants keep the *)
(* order of the source (single file < per-user cap < global cap) with      *)
(* values small enough to enumerate.  Time is counted in hours; the clock  *)
(* moves in steps of one retention window.                               *)
(*                                                                         *)
(* Request handlers run in their own threads (Flask's threaded server) and *)
(* each has its own SQLAlchemy session: a handler reads the sender's row   *)
(* into its session and, at commit, writes back the values it computed     *)
(* from that read.  A send is therefore two steps, the read and the        *)
(* commit, and other handlers may run in between.  Each phase of the       *)
(* background thread, from its query to its commit, is one step.  The      *)
(* background thread and the notification threads use Model.query outside  *)
(* a request; the model takes the Flask-SQLAlchemy behaviour under which   *)
(* they run at all (an extension created with SQLAlchemy(app) serving its  *)
(* session without a pushed application context).                          *)
(***************************************************************************)
EXTENDS Integers, Sequences, FiniteSets, TLC

\* ------------------------------------------------------------ constants
\* api.py:27, 28, 487 (in storage units, order preserved)
MAX_FILE_SIZE == 3
MAX_USER_STORAGE == 4
MAX_TOTAL_STORAGE == 5
\* api.py:487 and api.py:27 in MiB
FILE_LIMIT_MIB == 30
USER_CAP_MIB == 100
\* api.py:29 (hours)
MESSAGE_AUTO_DELETE_HOURS == 24
\* api.py:30
POLLING_LIMIT == 50

\* ------------------------------------------------------------ bounds
\* messages ever created (message_id tokens handed out)
MaxMsgs == 2
\* last value of the clock, in hours
MaxClock == 48
\* rows of a store drawn as the input of an eviction phase
MaxStored == 3
\* downloads counted on one message
MaxReads == 2
\* the largest rowid the UserWebhook table hands out
MaxHookId == 4
\* the longest timeout, in seconds, a long poll asks for
MaxTimeout == 2
\* send requests between their read and their commit at one time
MaxInflight == MaxMsgs
\* largest explicit offset a client supplies
MaxOffset == MaxMsgs

Users == {"a", "b"}
\* the accounts messages are addressed to, and whose clients poll
Receivers == {"b"}
TickHours == MESSAGE_AUTO_DELETE_HOURS

\* Optional values: None is <<>>, a present value v is <<v>>.
None == <<>>
Some(v) == <<v>>
IsSome(o) == o # <<>>
Val(o) == o[1]

Max2(x, y) == IF x >= y THEN x ELSE y

VARIABLES
    users,      \* User rows: user_id -> [storage_used, message_count]
    messages,   \* Message rows (a set of records)
    files,      \* message_ids whose backing file is on disk under UPLOAD_FOLDER
    now,        \* the clock, in hours
    nextMid,    \* next message_id token
    inflight,   \* sends that have read the sender row and not yet committed
    inserts,    \* number of rows inserted so far
    maxAssigned,\* history: the largest id the store has handed out so far
    evictPc,    \* position of the background thread within its cycle
    lastEvict,  \* history: what the last completed eviction phase deleted
    client,     \* per receiver, the client that resumes from next_offset
    lastPoll,   \* history: the last getUpdates call and its response
    hooks,      \* UserWebhook rows (a set of records), as committed
    notify,     \* notification threads started and not yet run (hooked is
                \* history: the receiver had a registration at the send)
    attempts,   \* history: message_id -> outbound posts made for it
    replay,     \* history: per receiver, its last getUpdates call without offset
    lastCall,   \* history: the last other call or thread run and its outcome
    setting,    \* set_webhook calls that have deleted and not yet committed
    waiting     \* the get_updates call inside its long-poll loop, if any

vars == <<users, messages, files, now, nextMid, inflight, inserts, maxAssigned,
          evictPc, lastEvict, client, lastPoll, hooks, notify, attempts, replay,
          lastCall, setting, waiting>>

\* ------------------------------------------------------------ store helpers
RECURSIVE SumSizes(_)
SumSizes(S) ==
    IF S = {} THEN 0
    ELSE LET m == CHOOSE x \in S : TRUE
         IN (IF IsSome(m.file_size) THEN Val(m.file_size) ELSE 0) + SumSizes(S \ {m})

\* get_total_storage_used: SUM(file_size) over rows with file_size NOT NULL
get_total_storage_used(msgs) == SumSizes({m \in msgs : IsSome(m.file_size)})

MaxId(msgs) == CHOOSE i \in {m.id : m \in msgs} : \A m \in msgs : m.id <= i

\* Message.id is an INTEGER PRIMARY KEY of a SQLite table declared without
\* AUTOINCREMENT: the store hands out one more than the largest id now in
\* the table (1 for an empty table).
NewId(msgs) == IF msgs = {} THEN 1 ELSE MaxId(msgs) + 1

\* rows ascending by id, as ORDER BY Message.id ASC
RECURSIVE SortByIdDesc(_)
SortByIdDesc(S) ==
    IF S = {} THEN <<>>
    ELSE LET m == CHOOSE x \in S : \A y \in S : x.id >= y.id
         IN <<m>> \o SortByIdDesc(S \ {m})

RECURSIVE SortById(_)
SortById(S) ==
    IF S = {} THEN <<>>
    ELSE LET m == CHOOSE x \in S : \A y \in S : x.id <= y.id
         IN <<m>> \o SortById(S \ {m})

\* rows ascending by sent time, as ORDER BY Message.sent_at ASC; sent_ord is
\* the order of the inserts, which the microsecond timestamps follow
RECURSIVE SortBySentDesc(_)
SortBySentDesc(S) ==
    IF S = {} THEN <<>>
    ELSE LET m == CHOOSE x \in S : \A y \in S : x.sent_ord >= y.sent_ord
         IN <<m>> \o SortBySentDesc(S \ {m})

RECURSIVE SortBySent(_)
SortBySent(S) ==
    IF S = {} THEN <<>>
    ELSE LET m == CHOOSE x \in S : \A y \in S : x.sent_ord <= y.sent_ord
         IN <<m>> \o SortBySent(S \ {m})

\* the first n rows, as .limit(n) for n >= 0 (api.py:599, 605)
TakeAll(s, n) == s
Take(s, n) == IF n >= Len(s) THEN s ELSE SubSeq(s, 1, n)
Drop(s, n) == IF n >= Len(s) THEN <<>> ELSE SubSeq(s, n + 1, Len(s))
Reverse(s) == [i \in 1..Len(s) |-> s[Len(s) + 1 - i]]
Range(s) == {s[i] : i \in 1..Len(s)}

NoEvict == [phase |-> "none", deleted |-> {}, totalBefore |-> 0, usersBefore |-> <<>>]
NoPoll == [rcv |-> "a", offset |-> None, limit |-> 0, ret |-> {}, ids |-> <<>>,
           next_offset |-> 0, resumed |-> FALSE, seenBefore |-> {}]

NoCall == [op |-> "none"]
NoReplay == [limit |-> 0, ret |-> {}]

\* no response or phase report is waiting to be handed over
Quiet == lastPoll = NoPoll /\ lastEvict = NoEvict /\ lastCall = NoCall

Init ==
    /\ users = [u \in Users |-> [storage_used |-> 0, message_count |-> 0]]
    /\ messages = {}
    /\ files = {}
    /\ now = 0
    /\ nextMid = 1
    /\ inflight = {}
    /\ inserts = 0
    /\ maxAssigned = 0
    /\ evictPc = "sleep"
    /\ lastEvict = NoEvict
    /\ client = [u \in Receivers |-> [cursor |-> None, seen |-> {}]]
    /\ lastPoll = NoPoll
    /\ hooks = {}
    /\ setting = {}
    /\ waiting = None
    /\ notify = {}
    /\ attempts = [i \in 1..MaxMsgs |-> 0]
    /\ replay = [u \in Receivers |-> NoReplay]
    /\ lastCall = NoCall

Size(m) == Val(m.file_size)

\* UserWebhook.query.filter_by(user_id=user_id, is_active=True).first()
\* finds a row (api.py:183-185); no handler clears is_active
HasWebhook(u) == \E h \in hooks : h.user_id = u
OnDisk(m) == m.message_id \in files

\* ------------------------------------------------------------ sends
\* get_message_preview (api.py:221-228): the text of a message stands for
\* itself, a file is shown by its name; the content of message t is written t
get_message_preview(m) ==
    IF m.message_type = "file" THEN <<"file", m.message_id>>
    ELSE <<"text", m.message_id>>

\* the reply lookup (api.py:403-410, 506-513): the sender and the preview of
\* the message reply_to names, as stored at this moment
ReplyCaptureFirst(reply_to) ==
    LET hit == {m \in messages : IsSome(reply_to)} IN
    IF hit = {} THEN [sender |-> None, text |-> None]
    ELSE LET m == CHOOSE x \in hit : \A y \in hit : x.id <= y.id
         IN [sender |-> Some(m.sender_id), text |-> Some(get_message_preview(m))]
ReplyCapture(reply_to) ==
    LET hit == {m \in messages : IsSome(reply_to) /\ m.message_id = Val(reply_to)} IN
    IF hit = {} THEN [sender |-> None, text |-> None]
    ELSE LET m == CHOOSE x \in hit : TRUE
         IN [sender |-> Some(m.sender_id), text |-> Some(get_message_preview(m))]

\* send_message up to the read of the sender row (api.py:369-426): the
\* validations, the reply lookup, the token, and the sender's counters as
\* the handler's session loads them
SendMessageRead(s, r, reply_to) ==
    /\ Quiet
    /\ r \in Users
    /\ nextMid <= MaxMsgs
    /\ Cardinality(inflight) < MaxInflight
    /\ inflight' = inflight \cup
          {[kind |-> "text", message_id |-> nextMid, sender_id |-> s,
            receiver_id |-> r, file_size |-> None,
            reply_to_message_id |-> reply_to,
            reply_to_sender_id |-> ReplyCapture(reply_to).sender,
            reply_to_text |-> ReplyCapture(reply_to).text,
            read_storage |-> users[s].storage_used,
            read_count |-> users[s].message_count]}
    /\ nextMid' = nextMid + 1
    /\ UNCHANGED <<users, messages, files, now, inserts, maxAssigned, evictPc, lastEvict,
                   client, lastPoll>>
    /\ UNCHANGED <<hooks, notify, attempts, replay, lastCall>>
    /\ UNCHANGED <<setting, waiting>>

\* the comparison of the quota pre-check of send_file (api.py:493)
ExceedsAtCap(used, size, cap) == used + size >= cap
Exceeds(used, size, cap) == used + size > cap

\* the single-file test of send_file (api.py:487)
FileTooLargeAtLimit(size, limit) == size >= limit
FileTooLarge(size, limit) == size > limit

\* the quota pre-check of send_file (api.py:493)
QuotaRejects(used, size) == Exceeds(used, size, MAX_USER_STORAGE)

\* send_file up to file.save (api.py:456-521): size check, quota pre-check
\* against the sender row as loaded, receiver lookup, tokens,
\* and the upload written to disk
SendFileRead(s, r, size) ==
    /\ Quiet
    /\ ~FileTooLarge(size, MAX_FILE_SIZE)
    /\ ~QuotaRejects(users[s].storage_used, size)
    /\ r \in Users
    /\ nextMid <= MaxMsgs
    /\ Cardinality(inflight) < MaxInflight
    /\ inflight' = inflight \cup
          {[kind |-> "file", message_id |-> nextMid, sender_id |-> s,
            receiver_id |-> r, file_size |-> Some(size),
            reply_to_message_id |-> None,
            reply_to_sender_id |-> None,
            reply_to_text |-> None,
            read_storage |-> users[s].storage_used,
            read_count |-> users[s].message_count]}
    /\ files' = files \cup {nextMid}
    /\ nextMid' = nextMid + 1
    /\ UNCHANGED <<users, messages, now, inserts, maxAssigned, evictPc, lastEvict,
                   client, lastPoll>>
    /\ UNCHANGED <<hooks, notify, attempts, replay, lastCall>>
    /\ UNCHANGED <<setting, waiting>>

\* the row a send inserts (api.py:415-426, 524-541)
NewMessage(q) ==
    [id |-> NewId(messages),
     message_id |-> q.message_id,
     message_type |-> IF q.kind = "file" THEN "file"
                      ELSE IF IsSome(q.reply_to_message_id) THEN "reply" ELSE "text",
     file_size |-> q.file_size,
     reply_to_message_id |-> q.reply_to_message_id,
     reply_to_sender_id |-> q.reply_to_sender_id,
     reply_to_text |-> q.reply_to_text,
     sender_id |-> q.sender_id,
     receiver_id |-> q.receiver_id,
     sent_at |-> now,
     sent_ord |-> inserts + 1,
     is_delivered |-> FALSE,
     read_count |-> 0,
     webhook_sent |-> FALSE]

\* the sender row after the commit: the unit of work writes the columns the
\* handler changed, computed from the values it read (api.py:429, 544-545)
SenderAfterSend(q) ==
    [storage_used |->
        IF q.kind = "file" /\ Val(q.file_size) # 0
        THEN q.read_storage + Val(q.file_size)
        ELSE users[q.sender_id].storage_used,
     message_count |-> q.read_count + 1]

\* db.session.add(message) ... db.session.commit() (api.py:427-430, 542-547)
SendCommit(q) ==
    /\ Quiet
    /\ q \in inflight
    /\ LET m == NewMessage(q) IN
        /\ messages' = messages \cup {m}
        /\ inserts' = inserts + 1
        /\ maxAssigned' = Max2(maxAssigned, m.id)
    /\ users' = [users EXCEPT ![q.sender_id] = SenderAfterSend(q)]
    /\ inflight' = inflight \ {q}
    /\ UNCHANGED <<files, now, nextMid, evictPc, lastEvict, client, lastPoll>>
    /\ notify' = notify \cup {[message_id |-> q.message_id, receiver_id |-> q.receiver_id,
                            hooked |-> HasWebhook(q.receiver_id)]}
    /\ UNCHANGED <<hooks, attempts, replay, lastCall>>
    /\ UNCHANGED <<setting, waiting>>

\* the commit raises (the store is locked or full): the handler rolls the
\* session back and answers 500 (api.py:447-452, 570-575); what file.save
\* wrote stays where it is
SendFail(q) ==
    /\ Quiet
    /\ q \in inflight
    /\ inflight' = inflight \ {q}
    /\ lastCall' = [op |-> IF q.kind = "file" THEN "sendFile" ELSE "sendMessage",
                    success |-> FALSE, error |-> "Failed to send",
                    sender_id |-> q.sender_id, receiver_id |-> q.receiver_id,
                    message_id |-> q.message_id]
    /\ UNCHANGED <<users, messages, files, now, nextMid, inserts, maxAssigned, evictPc,
                   lastEvict, client, lastPoll, hooks, notify, attempts, replay>>
    /\ UNCHANGED <<setting, waiting>>

\* the checks of send_message in the order the handler makes them
\* (api.py:384-401); "" is a request without receiver_id
SendMessageError(r, has_text) ==
    IF r = "" THEN "Receiver ID is required"
    ELSE IF ~has_text THEN "Message text is required"
    ELSE IF r \notin Users THEN "Receiver user not found"
    ELSE "none"

\* send_message answering an error before it builds the message
SendMessageReject(s, r, has_text) ==
    /\ Quiet
    /\ SendMessageError(r, has_text) # "none"
    /\ lastCall' = [op |-> "sendMessage", success |-> FALSE,
                    error |-> SendMessageError(r, has_text),
                    sender_id |-> s, receiver_id |-> r, message_id |-> 0]
    /\ UNCHANGED <<users, messages, files, now, nextMid, inflight, inserts, maxAssigned,
                   evictPc, lastEvict, client, lastPoll, hooks, notify, attempts, replay>>
    /\ UNCHANGED <<setting, waiting>>

\* the checks of send_file in the order the handler makes them
\* (api.py:477-515, 564-568), for a single-file limit and a per-user cap
\* given in the same unit as size and used
FileCheck(r, size, used, allowed, file_limit, user_cap) ==
    IF r = "" THEN "Receiver ID is required"
    ELSE IF FileTooLarge(size, file_limit) THEN "File size exceeds 30MB limit"
    ELSE IF Exceeds(used, size, user_cap) THEN "Storage limit exceeded"
    ELSE IF r \notin Users THEN "Receiver user not found"
    ELSE IF ~allowed THEN "File type not allowed"
    ELSE "none"

\* the same in storage units; used is sender.storage_used as loaded
SendFileError(r, size, used, allowed) ==
    FileCheck(r, size, used, allowed, MAX_FILE_SIZE, MAX_USER_STORAGE)

\* send_file answering an error before file.save
SendFileReject(s, r, size, allowed) ==
    /\ Quiet
    /\ SendFileError(r, size, users[s].storage_used, allowed) # "none"
    /\ lastCall' = [op |-> "sendFile", success |-> FALSE,
                    error |-> SendFileError(r, size, users[s].storage_used, allowed),
                    sender_id |-> s, receiver_id |-> r, message_id |-> 0,
                    file_size |-> size, storage_used |-> users[s].storage_used]
    /\ UNCHANGED <<users, messages, files, now, nextMid, inflight, inserts, maxAssigned,
                   evictPc, lastEvict, client, lastPoll, hooks, notify, attempts, replay>>
    /\ UNCHANGED <<setting, waiting>>

\* the answer of send_file to a file of size MiB from an account with used
\* MiB stored, with the limits of the source in MiB (api.py:27, 487)
SendFileMiB(used, size) ==
    /\ Quiet
    /\ lastCall' = [op |-> "sendFileMiB", used |-> used, size |-> size,
                    error |-> FileCheck("b", size, used, TRUE, FILE_LIMIT_MIB, USER_CAP_MIB)]
    /\ UNCHANGED <<users, messages, files, now, nextMid, inflight, inserts, maxAssigned,
                   evictPc, lastEvict, client, lastPoll, hooks, notify, attempts, replay>>
    /\ UNCHANGED <<setting, waiting>>

\* ------------------------------------------------------------ getUpdates
\* the query of get_updates (api.py:589-595)
EligibleUndelivered(m, r, offset) ==
    /\ m.receiver_id = r
    /\ IF IsSome(offset) THEN m.id > Val(offset) ELSE ~m.is_delivered
EligibleFrom(m, r, offset) == m.receiver_id = r /\ (IsSome(offset) => m.id >= Val(offset))
Eligible(m, r, offset) == m.receiver_id = r /\ (IsSome(offset) => m.id > Val(offset))

\* query.order_by(Message.id.asc()).limit(limit).all() (api.py:605)
Updates(r, offset, limit) ==
    Take(SortById({m \in messages : Eligible(m, r, offset)}), limit)

\* offset or 0 (api.py:608, 620)
OffsetOrZero(offset) == IF IsSome(offset) THEN Val(offset) ELSE 0

RECURSIVE MaxUpdateId(_, _)
MaxUpdateId(msgs, acc) ==
    IF msgs = <<>> THEN acc
    ELSE MaxUpdateId(Tail(msgs), Max2(acc, Head(msgs).id))

\* next_offset (api.py:608-620)
NextOffsetSame(msgs, offset) ==
    IF msgs # <<>> THEN MaxUpdateId(msgs, OffsetOrZero(offset)) ELSE OffsetOrZero(offset)
NextOffset(msgs, offset) ==
    IF msgs # <<>> THEN MaxUpdateId(msgs, OffsetOrZero(offset)) + 1 ELSE OffsetOrZero(offset)

\* the delivered marking of the returned rows, committed (api.py:614-618)
MarkDeliveredAgain(ret) ==
    {IF m \in ret
     THEN [m EXCEPT !.is_delivered = TRUE, !.read_count = m.read_count + 1]
     ELSE m : m \in messages}
MarkDelivered(ret) ==
    {IF m \in ret /\ ~m.is_delivered
     THEN [m EXCEPT !.is_delivered = TRUE, !.read_count = m.read_count + 1]
     ELSE m : m \in messages}

RetOf(msgs) == {<<m.message_id, m.id>> : m \in Range(msgs)}
\* the update_ids of the updates list, in its order (api.py:610-611)
IdSeq(msgs) == [i \in 1..Len(msgs) |-> msgs[i].id]
Mids(ret) == {p[1] : p \in ret}

\* get_updates called with an offset of the caller's choosing
PollAny(r, offset, limit) ==
    LET msgs == Updates(r, offset, limit) IN
    /\ Quiet
    /\ messages' = MarkDelivered(Range(msgs))
    /\ lastPoll' = [rcv |-> r, offset |-> offset, limit |-> limit,
                    ret |-> RetOf(msgs), ids |-> IdSeq(msgs),
                    next_offset |-> NextOffset(msgs, offset),
                    resumed |-> FALSE, seenBefore |-> {}]
    /\ UNCHANGED <<users, files, now, nextMid, inflight, inserts, maxAssigned, evictPc,
                   lastEvict, client>>
    /\ UNCHANGED <<hooks, notify, attempts, replay, lastCall>>
    /\ UNCHANGED <<setting, waiting>>

\* get_updates called by the client of r that starts without an offset and
\* then always passes the next_offset of its previous call
PollResume(r, limit) ==
    LET offset == client[r].cursor
        msgs == Updates(r, offset, limit) IN
    /\ Quiet
    /\ messages' = MarkDelivered(Range(msgs))
    /\ lastPoll' = [rcv |-> r, offset |-> offset, limit |-> limit,
                    ret |-> RetOf(msgs), ids |-> IdSeq(msgs),
                    next_offset |-> NextOffset(msgs, offset),
                    resumed |-> IsSome(offset), seenBefore |-> client[r].seen]
    /\ client' = [client EXCEPT ![r] =
                    [cursor |-> Some(NextOffset(msgs, offset)),
                     seen |-> client[r].seen \cup Mids(RetOf(msgs))]]
    /\ UNCHANGED <<users, files, now, nextMid, inflight, inserts, maxAssigned, evictPc, lastEvict>>
    /\ UNCHANGED <<hooks, notify, attempts, replay, lastCall>>
    /\ UNCHANGED <<setting, waiting>>

\* get_updates called by a client of r that never passes an offset; the
\* response carries, as seenBefore, what that client's previous call
\* returned if it asked with the same limit
PollReplay(r, limit) ==
    LET msgs == Updates(r, None, limit) IN
    /\ Quiet
    /\ messages' = MarkDelivered(Range(msgs))
    /\ lastPoll' = [rcv |-> r, offset |-> None, limit |-> limit,
                    ret |-> RetOf(msgs), ids |-> IdSeq(msgs),
                    next_offset |-> NextOffset(msgs, None),
                    resumed |-> FALSE,
                    seenBefore |-> IF replay[r].limit = limit THEN replay[r].ret ELSE {}]
    /\ replay' = [replay EXCEPT ![r] = [limit |-> limit, ret |-> Mids(RetOf(msgs))]]
    /\ UNCHANGED <<users, files, now, nextMid, inflight, inserts, maxAssigned, evictPc,
                   lastEvict, client, hooks, notify, attempts, lastCall>>
    /\ UNCHANGED <<setting, waiting>>

\* the test of the long-poll loop, on whole seconds since start_time
\* (api.py:598)
StillWaitingAlways(elapsed, timeout) == TRUE
StillWaiting(elapsed, timeout) == elapsed < timeout

\* get_updates with timeout > 0 up to the start of its loop (api.py:579-597)
LongPollStart(r, offset, limit, timeout) ==
    /\ Quiet
    /\ waiting = None
    /\ timeout > 0
    /\ waiting' = Some([rcv |-> r, offset |-> offset, limit |-> limit,
                        timeout |-> timeout, elapsed |-> 0])
    /\ UNCHANGED <<users, messages, files, now, nextMid, inflight, inserts, maxAssigned,
                   evictPc, lastEvict, client, lastPoll, hooks, notify, attempts, replay,
                   lastCall, setting>>

\* the response of a long poll: the rows marked and committed, the
\* updates and next_offset (api.py:607-632)
LongPollRespond(w, msgs) ==
    /\ messages' = MarkDelivered(Range(msgs))
    /\ lastPoll' = [rcv |-> w.rcv, offset |-> w.offset, limit |-> w.limit,
                    ret |-> RetOf(msgs), ids |-> IdSeq(msgs),
                    next_offset |-> NextOffset(msgs, w.offset),
                    resumed |-> FALSE, seenBefore |-> {}]
    /\ lastCall' = [op |-> "longPoll", timeout |-> w.timeout, waited |-> w.elapsed]
    /\ waiting' = None

\* one turn of the long-poll loop (api.py:598-603): past the timeout the
\* handler leaves the loop with the empty result of its last query;
\* otherwise it queries, and leaves the loop with the rows found or sleeps
\* a second
LongPollStep ==
    /\ Quiet
    /\ waiting # None
    /\ LET w == Val(waiting)
           msgs == Updates(w.rcv, w.offset, w.limit) IN
       IF ~StillWaiting(w.elapsed, w.timeout) THEN LongPollRespond(w, <<>>)
       ELSE IF msgs # <<>> THEN LongPollRespond(w, msgs)
       ELSE /\ w.elapsed < MaxTimeout
            /\ waiting' = Some([w EXCEPT !.elapsed = @ + 1])
            /\ UNCHANGED <<messages, lastPoll, lastCall>>
    /\ UNCHANGED <<users, files, now, nextMid, inflight, inserts, maxAssigned, evictPc,
                   lastEvict, client, hooks, notify, attempts, replay, setting>>

\* ------------------------------------------------------------ reads
\* the query of get_chat_history (api.py:655-658)
Between(m, u, other) ==
    \/ m.sender_id = u /\ m.receiver_id = other
    \/ m.sender_id = other /\ m.receiver_id = u

\* get_chat_history (api.py:642-666): newest first, offset rows skipped,
\* at most limit rows
GetChatHistory(u, other, limit, offset) ==
    LET rows == Take(Drop(Reverse(SortBySent({m \in messages : Between(m, u, other)})),
                          offset), limit) IN
    /\ Quiet
    /\ lastCall' = [op |-> "history", caller |-> u, other |-> other,
                    ret |-> {m.message_id : m \in Range(rows)}]
    /\ UNCHANGED <<users, messages, files, now, nextMid, inflight, inserts, maxAssigned,
                   evictPc, lastEvict, client, lastPoll, hooks, notify, attempts, replay>>
    /\ UNCHANGED <<setting, waiting>>

\* the access test of download_file (api.py:687)
DownloadDeniedNever(m, u) == FALSE
DownloadDenied(m, u) == m.sender_id # u /\ m.receiver_id # u

\* the answer of download_file for the rows its query finds (api.py:679-697);
\* a file_id is written as the message_id it was generated with
DownloadResult(found, u) ==
    IF found = {} THEN "File not found"
    ELSE LET m == CHOOSE x \in found : TRUE IN
         IF DownloadDenied(m, u) THEN "Access denied"
         ELSE IF ~OnDisk(m) THEN "File not found on server"
         ELSE "ok"

\* download_file (api.py:676-709)
DownloadFile(u, fid) ==
    LET found == {m \in messages : m.message_type = "file" /\ m.message_id = fid}
        result == DownloadResult(found, u) IN
    /\ Quiet
    /\ result = "ok" => \A m \in found : m.read_count < MaxReads
    /\ messages' = IF result = "ok"
                    THEN {IF m \in found THEN [m EXCEPT !.read_count = @ + 1] ELSE m :
                            m \in messages}
                    ELSE messages
    /\ lastCall' = [op |-> "download", caller |-> u, file_id |-> fid, result |-> result]
    /\ UNCHANGED <<users, files, now, nextMid, inflight, inserts, maxAssigned, evictPc,
                   lastEvict, client, lastPoll, hooks, notify, attempts, replay>>
    /\ UNCHANGED <<setting, waiting>>

\* ------------------------------------------------------------ webhooks
\* the rowid of an inserted UserWebhook row: one more than the largest in
\* the table (api.py:132-133)
NewHookId(rows) == IF rows = {} THEN 1 ELSE MaxId(rows) + 1

\* the rows UserWebhook.query.filter_by(user_id=...).delete() removes
\* (api.py:724)
HooksOf(rows, u) == {h.id : h \in {x \in rows : x.user_id = u}}

\* the table after the commit of set_webhook: the rows it deleted are gone
\* and the new one is in (api.py:726-732)
HooksAfterSet(rows, gone, u, e) ==
    LET kept == {h \in rows : h.id \notin gone} IN
    kept \cup {[id |-> NewHookId(kept), user_id |-> u, webhook_url |-> e.url,
                secret_token |-> e.secret_token, last_triggered |-> None]}

\* the store takes one writing transaction at a time: a statement that
\* writes waits while another connection is inside one (api.py:17, 724)
CanWriteAlways == TRUE
CanWrite == setting = {}

\* set_webhook with nothing run between its statements (api.py:713-737)
SetWebhook(u, e) ==
    /\ Quiet
    /\ CanWrite
    /\ NewHookId(hooks) <= MaxHookId
    /\ hooks' = HooksAfterSet(hooks, HooksOf(hooks, u), u, e)
    /\ lastCall' = [op |-> "setWebhook", success |-> TRUE, user_id |-> u, endpoint |-> e,
                    replaced |-> HooksOf(hooks, u)]
    /\ UNCHANGED <<users, messages, files, now, nextMid, inflight, inserts, maxAssigned,
                   evictPc, lastEvict, client, lastPoll, notify, attempts, replay, setting>>
    /\ UNCHANGED waiting

\* set_webhook without a url answers 400 (api.py:718-722)
SetWebhookReject(u) ==
    /\ Quiet
    /\ lastCall' = [op |-> "setWebhook", success |-> FALSE, user_id |-> u,
                    endpoint |-> None, replaced |-> {}]
    /\ UNCHANGED <<users, messages, files, now, nextMid, inflight, inserts, maxAssigned,
                   evictPc, lastEvict, client, lastPoll, hooks, notify, attempts, replay,
                   setting>>
    /\ UNCHANGED waiting

\* set_webhook up to its DELETE, which opens the transaction (api.py:715-724)
SetWebhookDelete(u, e) ==
    /\ Quiet
    /\ CanWrite
    /\ NewHookId(hooks) <= MaxHookId
    /\ setting' = setting \cup {[user_id |-> u, endpoint |-> e, gone |-> HooksOf(hooks, u)]}
    /\ UNCHANGED <<users, messages, files, now, nextMid, inflight, inserts, maxAssigned,
                   evictPc, lastEvict, client, lastPoll, hooks, notify, attempts, replay,
                   lastCall>>
    /\ UNCHANGED waiting

\* the rest of set_webhook: the insert and the commit (api.py:726-737)
SetWebhookCommit(h) ==
    /\ Quiet
    /\ h \in setting
    /\ setting' = setting \ {h}
    /\ hooks' = HooksAfterSet(hooks, h.gone, h.user_id, h.endpoint)
    /\ lastCall' = [op |-> "setWebhook", success |-> TRUE, user_id |-> h.user_id,
                    endpoint |-> h.endpoint, replaced |-> h.gone]
    /\ UNCHANGED <<users, messages, files, now, nextMid, inflight, inserts, maxAssigned,
                   evictPc, lastEvict, client, lastPoll, notify, attempts, replay>>
    /\ UNCHANGED waiting

\* the DELETE of set_webhook finds the store locked for longer than the
\* connection waits and raises: rollback and 500 (api.py:739-744)
SetWebhookFail(u, e) ==
    /\ Quiet
    /\ ~CanWrite
    /\ lastCall' = [op |-> "setWebhook", success |-> FALSE, user_id |-> u, endpoint |-> e,
                    replaced |-> {}]
    /\ UNCHANGED <<users, messages, files, now, nextMid, inflight, inserts, maxAssigned,
                   evictPc, lastEvict, client, lastPoll, hooks, notify, attempts, replay,
                   setting>>
    /\ UNCHANGED waiting

\* what the endpoint does to the post: answers 200, answers another status,
\* or the call raises (timeout, connection error)
Outcomes == {"200", "500", "error"}

\* the calls of requests.post one notification makes (api.py:201-206)
PostCountRetry(outcome) == IF outcome = "200" THEN 1 ELSE 2
PostCount(outcome) == 1

\* the rows after message.webhook_sent = True (api.py:210-212)
MarkWebhookSent(mid) ==
    {IF m.message_id = mid THEN [m EXCEPT !.webhook_sent = TRUE] ELSE m : m \in messages}

\* the rows after webhook.last_triggered = now on the row .first() found
\* (api.py:183, 208)
Triggered(u) ==
    LET first == CHOOSE h \in hooks :
                    h.user_id = u /\ \A x \in hooks : x.user_id = u => h.id <= x.id
    IN {IF h = first THEN [h EXCEPT !.last_triggered = Some(now)] ELSE h : h \in hooks}

\* send_webhook_notification, run by the thread a send started (api.py:181-219)
Notify(t, outcome) ==
    /\ Quiet
    /\ t \in notify
    /\ notify' = notify \ {t}
    /\ IF ~HasWebhook(t.receiver_id)
       THEN /\ lastCall' = [op |-> "notify", message_id |-> t.message_id,
                            receiver_id |-> t.receiver_id, hooked |-> t.hooked,
                            posted |-> FALSE, outcome |-> "none"]
            /\ UNCHANGED <<messages, hooks, attempts>>
       ELSE /\ lastCall' = [op |-> "notify", message_id |-> t.message_id,
                            receiver_id |-> t.receiver_id, hooked |-> t.hooked,
                            posted |-> TRUE, outcome |-> outcome]
            /\ attempts' = [attempts EXCEPT ![t.message_id] = @ + PostCount(outcome)]
            /\ IF outcome = "error"
               THEN UNCHANGED <<messages, hooks>>
               ELSE /\ hooks' = Triggered(t.receiver_id)
                    /\ messages' = MarkWebhookSent(t.message_id)
    /\ UNCHANGED <<users, files, now, nextMid, inflight, inserts, maxAssigned, evictPc,
                   lastEvict, client, lastPoll, replay>>
    /\ UNCHANGED <<setting, waiting>>

\* ------------------------------------------------------------ environment
\* time passes
Tick ==
    /\ Quiet
    /\ now + TickHours <= MaxClock
    /\ now' = now + TickHours
    /\ UNCHANGED <<users, messages, files, nextMid, inflight, inserts, maxAssigned, evictPc,
                   lastEvict, client, lastPoll>>
    /\ UNCHANGED <<hooks, notify, attempts, replay, lastCall>>
    /\ UNCHANGED <<setting, waiting>>

\* a stored upload disappears from UPLOAD_FOLDER behind the program's back,
\* the case the os.path.exists tests provide for (api.py:236, 264, 290)
LoseFile(fid) ==
    /\ Quiet
    /\ fid \in files
    /\ \E m \in messages : m.message_id = fid
    /\ files' = files \ {fid}
    /\ UNCHANGED <<users, messages, now, nextMid, inflight, inserts, maxAssigned, evictPc,
                   lastEvict, client, lastPoll>>
    /\ UNCHANGED <<hooks, notify, attempts, replay, lastCall>>
    /\ UNCHANGED <<setting, waiting>>

\* ------------------------------------------------------------ eviction
Deleted(S) == {[msg |-> m, onDisk |-> OnDisk(m)] : m \in S}

\* the clamped decrement of the sender's counters (api.py:242-243, 270-271)
DebitUnclamped(us, m) ==
    [us EXCEPT ![m.sender_id] =
        [storage_used |-> @.storage_used - Size(m),
         message_count |-> @.message_count - 1]]

Debit(us, m) ==
    [us EXCEPT ![m.sender_id] =
        [storage_used |-> Max2(0, @.storage_used - Size(m)),
         message_count |-> Max2(0, @.message_count - 1)]]

\* Message.sent_at < cutoff_time (api.py:232-233)
ExpiredLate(m) == m.sent_at < now - 2 * MESSAGE_AUTO_DELETE_HOURS
Expired(m) == m.sent_at < now - MESSAGE_AUTO_DELETE_HOURS

\* the ledger step of the sweep for one message (api.py:239-243)
SweepDebit(us, m) ==
    IF IsSome(m.file_size) /\ Size(m) # 0 THEN Debit(us, m) ELSE us

RECURSIVE SweepUsers(_, _)
SweepUsers(us, S) ==
    IF S = {} THEN us
    ELSE LET m == CHOOSE x \in S : TRUE
         IN SweepUsers(SweepDebit(us, m), S \ {m})

\* cleanup_old_messages (api.py:230-250)
ExpirySweep ==
    /\ Quiet
    /\ evictPc = "sleep"
    /\ LET old == {m \in messages : Expired(m)} IN
        /\ messages' = messages \ old
        /\ files' = files \ {m.message_id : m \in old}
        /\ users' = SweepUsers(users, old)
        /\ lastEvict' = [phase |-> "sweep", deleted |-> Deleted(old),
                         totalBefore |-> get_total_storage_used(messages),
                         usersBefore |-> users]
    /\ evictPc' = "swept"
    /\ UNCHANGED <<now, nextMid, inflight, inserts, maxAssigned, client, lastPoll>>
    /\ UNCHANGED <<hooks, notify, attempts, replay, lastCall>>
    /\ UNCHANGED <<setting, waiting>>

\* the break test of the global loop (api.py:261)
GlobalDoneFlipped(total, deleted_size) == total - deleted_size >= MAX_TOTAL_STORAGE
GlobalDone(total, deleted_size) == total - deleted_size <= MAX_TOTAL_STORAGE

\* the loop over files_to_delete (api.py:260-273); acc is the User table
\* and the rows deleted so far
RECURSIVE GlobalLoop(_, _, _, _)
GlobalLoop(todo, total, deleted_size, acc) ==
    IF todo = <<>> \/ GlobalDone(total, deleted_size) THEN acc
    ELSE LET m == Head(todo) IN
         GlobalLoop(Tail(todo), total,
                    IF OnDisk(m) THEN deleted_size + Size(m) ELSE deleted_size,
                    [users |-> Debit(acc.users, m),
                     deleted |-> acc.deleted \cup {m}])

\* the first half of enforce_storage_limits (api.py:254-275)
GlobalPhase ==
    /\ Quiet
    /\ evictPc = "swept"
    /\ LET total == get_total_storage_used(messages)
           todo == SortBySent({m \in messages : IsSome(m.file_size)})
           out == IF total > MAX_TOTAL_STORAGE
                  THEN GlobalLoop(todo, total, 0, [users |-> users, deleted |-> {}])
                  ELSE [users |-> users, deleted |-> {}]
       IN
        /\ messages' = messages \ out.deleted
        /\ files' = files \ {m.message_id : m \in out.deleted}
        /\ users' = out.users
        /\ lastEvict' = [phase |-> "global", deleted |-> Deleted(out.deleted),
                         totalBefore |-> total, usersBefore |-> users]
    /\ evictPc' = "global"
    /\ UNCHANGED <<now, nextMid, inflight, inserts, maxAssigned, client, lastPoll>>
    /\ UNCHANGED <<hooks, notify, attempts, replay, lastCall>>
    /\ UNCHANGED <<setting, waiting>>

\* the loop over user_files (api.py:286-296); row is the user's row and
\* deleted the rows deleted so far
RECURSIVE UserLoop(_, _, _)
UserLoop(todo, deleted_size, acc) ==
    IF todo = <<>> \/ acc.row.storage_used - deleted_size <= MAX_USER_STORAGE THEN acc
    ELSE LET m == Head(todo) IN
         UserLoop(Tail(todo),
                  IF OnDisk(m) THEN deleted_size + Size(m) ELSE deleted_size,
                  [row |-> [storage_used |-> acc.row.storage_used - Size(m),
                            message_count |-> acc.row.message_count - 1],
                   deleted |-> acc.deleted \cup {m}])

\* user_files: the file messages the user sent (api.py:280-283)
OwnFilesAnyone(u) == {m \in messages : IsSome(m.file_size)}
OwnFiles(u) == {m \in messages : m.sender_id = u /\ IsSome(m.file_size)}

\* one user's turn in the second half of enforce_storage_limits (api.py:279-298)
UserTurn(u) ==
    IF users[u].storage_used > MAX_USER_STORAGE
    THEN UserLoop(SortBySent(OwnFiles(u)),
                  0, [row |-> users[u], deleted |-> {}])
    ELSE [row |-> users[u], deleted |-> {}]

\* the second half of enforce_storage_limits (api.py:277-298)
PerUserPhase ==
    /\ Quiet
    /\ evictPc = "global"
    /\ LET gone == UNION {UserTurn(u).deleted : u \in Users} IN
        /\ messages' = messages \ gone
        /\ files' = files \ {m.message_id : m \in gone}
        /\ users' = [u \in Users |-> UserTurn(u).row]
        /\ lastEvict' = [phase |-> "user", deleted |-> Deleted(gone),
                         totalBefore |-> get_total_storage_used(messages),
                         usersBefore |-> users]
    /\ evictPc' = "sleep"
    /\ UNCHANGED <<now, nextMid, inflight, inserts, maxAssigned, client, lastPoll>>
    /\ UNCHANGED <<hooks, notify, attempts, replay, lastCall>>
    /\ UNCHANGED <<setting, waiting>>

\* the rows the phase the thread is about to run would delete
Doomed ==
    IF evictPc = "sleep" THEN {m \in messages : Expired(m)}
    ELSE IF evictPc = "swept"
    THEN LET total == get_total_storage_used(messages) IN
         IF total > MAX_TOTAL_STORAGE
         THEN GlobalLoop(SortBySent({m \in messages : IsSome(m.file_size)}), total, 0,
                         [users |-> users, deleted |-> {}]).deleted
         ELSE {}
    ELSE UNION {UserTurn(u).deleted : u \in Users}

\* where the thread goes on after an exception in the phase at pc: the
\* sweep catches it and returns, so the enforcement follows (api.py:249-250,
\* 308); the enforcement catches it and returns, so the sleep and the next
\* cycle follow (api.py:300-301, 309); whatever escapes them is caught by
\* the loop itself (api.py:310-312)
ResumeNever(pc) == "dead"
Resume(pc) == IF pc = "sleep" THEN "swept" ELSE "sleep"

\* a phase raises before its commit: nothing of it reaches the store, the
\* uploads it had already removed (lost) stay removed
PhaseError(lost) ==
    /\ Quiet
    /\ evictPc \in {"sleep", "swept", "global"}
    /\ lost \subseteq {m.message_id : m \in Doomed} \cap files
    /\ files' = files \ lost
    /\ evictPc' = Resume(evictPc)
    /\ lastEvict' = [phase |-> "error", deleted |-> {}, totalBefore |-> 0,
                     usersBefore |-> users]
    /\ UNCHANGED <<users, messages, now, nextMid, inflight, inserts, maxAssigned, client,
                   lastPoll, hooks, notify, attempts, replay, lastCall>>
    /\ UNCHANGED <<setting, waiting>>

\* a step of the background thread
BackgroundStep ==
    \/ ExpirySweep
    \/ GlobalPhase
    \/ PerUserPhase
    \/ \E lost \in SUBSET files : PhaseError(lost)

\* the handler returns its response (api.py:632); the background thread
\* goes on to its next phase (api.py:307-309)
Return ==
    /\ ~Quiet
    /\ lastPoll' = NoPoll
    /\ lastEvict' = NoEvict
    /\ UNCHANGED <<users, messages, files, now, nextMid, inflight, inserts, maxAssigned,
                   evictPc, client>>
    /\ lastCall' = NoCall
    /\ UNCHANGED <<hooks, notify, attempts, replay>>
    /\ UNCHANGED <<setting, waiting>>

\* ------------------------------------------------------------ specifications
\* the requests that arrive: file sizes, explicit offsets and limits
FileSizes == {MAX_FILE_SIZE}
\* reply_to_message_id of a send: absent, or a token no message bears
NoTarget == {None, Some(0)}
Offsets == {None} \cup {Some(i) : i \in 0..MaxOffset}
Limits == {1, POLLING_LIMIT}
\* the limits of a poll, the one that asks for nothing included
LimitsFromZero == {0} \cup Limits

\* The whole program: every handler and the background thread.
Next ==
    \/ \E s \in Users, r \in Receivers, reply_to \in NoTarget : SendMessageRead(s, r, reply_to)
    \/ \E s \in Users, r \in Receivers, size \in FileSizes : SendFileRead(s, r, size)
    \/ \E q \in inflight : SendCommit(q)
    \/ \E r \in Receivers, offset \in Offsets, limit \in Limits : PollAny(r, offset, limit)
    \/ \E r \in Receivers, limit \in Limits : PollResume(r, limit)
    \/ Tick
    \/ \E fid \in 1..MaxMsgs : LoseFile(fid)
    \/ ExpirySweep
    \/ GlobalPhase
    \/ PerUserPhase
    \/ Return

Spec == Init /\ [][Next]_vars

\* The whole program with no two sends overlapping: a send commits before
\* the next one reads.
NextSerial == Next /\ Cardinality(inflight') <= 1

SpecSerial == Init /\ [][NextSerial]_vars

\* The program with one sending account, plain text or file messages, and
\* every upload staying on disk: what a poll returns depends on the receiver
\* and the ids of the rows in the store, not on who sent them.
NextPoll ==
    \/ \E r \in Receivers : SendMessageRead("a", r, None)
    \/ \E r \in Receivers, size \in FileSizes : SendFileRead("a", r, size)
    \/ \E q \in inflight : SendCommit(q)
    \/ \E r \in Receivers, offset \in Offsets, limit \in Limits : PollAny(r, offset, limit)
    \/ \E r \in Receivers, limit \in Limits : PollResume(r, limit)
    \/ Tick
    \/ ExpirySweep
    \/ GlobalPhase
    \/ PerUserPhase
    \/ Return

SpecPoll == Init /\ [][NextPoll]_vars

\* The program without getUpdates calls: a poll writes is_delivered and
\* read_count only, which neither the sends nor the background thread read.
NextEvict ==
    \/ \E s \in Users, r \in Receivers, reply_to \in NoTarget : SendMessageRead(s, r, reply_to)
    \/ \E s \in Users, r \in Receivers, size \in FileSizes : SendFileRead(s, r, size)
    \/ \E q \in inflight : SendCommit(q)
    \/ Tick
    \/ \E fid \in 1..MaxMsgs : LoseFile(fid)
    \/ ExpirySweep
    \/ GlobalPhase
    \/ PerUserPhase
    \/ Return

SpecEvict == Init /\ [][NextEvict]_vars

\* The send handlers of one account with every answer they give: the
\* rejections, the accepted sends and the commits that fail.
SendSizes == 1..(MAX_FILE_SIZE + 1)
Addressees == Users \cup {"", "nobody"}

NextSend ==
    \/ \E r \in Addressees, has_text \in BOOLEAN : SendMessageReject("a", r, has_text)
    \/ \E r \in Receivers : SendMessageRead("a", r, None)
    \/ \E r \in Addressees, size \in SendSizes, allowed \in BOOLEAN :
          SendFileReject("a", r, size, allowed)
    \/ \E r \in Receivers, size \in SendSizes : SendFileRead("a", r, size)
    \/ \E q \in inflight : SendCommit(q)
    \/ \E q \in inflight : SendFail(q)
    \/ Return

SpecSend == Init /\ [][NextSend]_vars

\* The checks of send_file on sizes in MiB: the storage an account can have
\* used (files of 10 and 20 MiB add up to every multiple of 10 MiB up to
\* the cap) and the sizes around the single-file limit and the cap.
UsedMiB == {10 * k : k \in 0..10}
SizesMiB == {1, 10, 20, 21, 29, 30, 31, 40, 41, 100}

NextMiB ==
    \/ \E used \in UsedMiB, size \in SizesMiB : SendFileMiB(used, size)
    \/ Return

SpecMiB == Init /\ [][NextMiB]_vars

\* Text messages to a receiver whose client polls without an offset every
\* time, with expiry deleting messages in between.
NextReplay ==
    \/ \E r \in Receivers : SendMessageRead("a", r, None)
    \/ \E q \in inflight : SendCommit(q)
    \/ \E r \in Receivers, limit \in Limits : PollReplay(r, limit)
    \/ Tick
    \/ ExpirySweep
    \/ GlobalPhase
    \/ PerUserPhase
    \/ Return

SpecReplay == Init /\ [][NextReplay]_vars

\* the registrations the accounts supply: a url, with or without a secret
Endpoints ==
    {[url |-> "u1", secret_token |-> None], [url |-> "u2", secret_token |-> Some("s")]}

\* Text messages to a receiver that registers a webhook, the notification
\* threads, and expiry deleting messages before or after their thread runs.
NextHook ==
    \/ \E r \in Receivers, e \in Endpoints : SetWebhook(r, e)
    \/ \E r \in Receivers : SendMessageRead("a", r, None)
    \/ \E q \in inflight : SendCommit(q)
    \/ \E t \in notify, outcome \in Outcomes : Notify(t, outcome)
    \/ Tick
    \/ ExpirySweep
    \/ GlobalPhase
    \/ PerUserPhase
    \/ Return

SpecHook == Init /\ [][NextHook]_vars

\* The accounts registering webhooks, each call in two steps so that calls
\* overlap: a second call arriving while one is inside its transaction
\* waits for the commit or gives up with a 500.
NextWebhook ==
    \/ \E u \in Users : SetWebhookReject(u)
    \/ \E u \in Users, e \in Endpoints : SetWebhookDelete(u, e)
    \/ \E h \in setting : SetWebhookCommit(h)
    \/ \E u \in Users, e \in Endpoints : SetWebhookFail(u, e)
    \/ Return

SpecWebhook == Init /\ [][NextWebhook]_vars

\* Text messages and replies between the accounts, a reply naming any
\* token handed out so far or one no message bears, with expiry deleting
\* reply targets before and after the reply is sent.
ReplyTargets == {None} \cup {Some(i) : i \in 0..MaxMsgs}

NextReply ==
    \/ \E s \in Users, r \in Receivers, reply_to \in ReplyTargets :
          (IsSome(reply_to) => Val(reply_to) < nextMid) /\ SendMessageRead(s, r, reply_to)
    \/ \E q \in inflight : SendCommit(q)
    \/ Tick
    \/ ExpirySweep
    \/ GlobalPhase
    \/ PerUserPhase
    \/ Return

SpecReply == Init /\ [][NextReply]_vars

\* Messages of one account to the other and to itself, sent one at a time,
\* and every account polling, asking for a history and downloading: to
\* the messages an account sends to itself the other account is a stranger.
NextAccess ==
    \/ \E r \in Users : inflight = {} /\ SendMessageRead("a", r, None)
    \/ \E r \in Users, size \in FileSizes : inflight = {} /\ SendFileRead("a", r, size)
    \/ \E q \in inflight : SendCommit(q)
    \/ \E r \in Users, limit \in Limits : PollAny(r, None, limit)
    \/ \E u \in Users, other \in Users, limit \in Limits, offset \in 0..1 :
          GetChatHistory(u, other, limit, offset)
    \/ \E u \in Users, fid \in 1..MaxMsgs : DownloadFile(u, fid)
    \/ Return

SpecAccess == Init /\ [][NextAccess]_vars

\* The background thread with phases that raise, next to the sends of one
\* account.  The thread is a running thread of the process and its sleeps
\* end: it takes its next step whenever it is its turn again and again,
\* and a response waiting to be handed over is handed over.
NextLive ==
    \/ \E r \in Receivers : SendMessageRead("a", r, None)
    \/ \E r \in Receivers, size \in FileSizes : SendFileRead("a", r, size)
    \/ \E q \in inflight : SendCommit(q)
    \/ Tick
    \/ BackgroundStep
    \/ Return

SpecLive ==
    Init /\ [][NextLive]_vars /\ SF_vars(BackgroundStep) /\ WF_vars(Return)

\* Text messages to a receiver that polls with any offset and any limit
\* from 0 on.
NextLimit ==
    \/ \E r \in Receivers : SendMessageRead("a", r, None)
    \/ \E q \in inflight : SendCommit(q)
    \/ \E r \in Receivers, offset \in Offsets, limit \in LimitsFromZero : PollAny(r, offset, limit)
    \/ Return

SpecLimit == Init /\ [][NextLimit]_vars

\* Long polls of the receiver, without an offset or past the first message,
\* next to the sends that bring it messages.  The handler is a running thread and its
\* sleeps end: its next turn of the loop comes whenever it is its turn
\* again and again, and a response is handed over.
LongOffsets == {None, Some(1)}

NextLong ==
    \/ \E r \in Receivers : SendMessageRead("a", r, None)
    \/ \E q \in inflight : SendCommit(q)
    \/ \E r \in Receivers, offset \in LongOffsets, limit \in Limits,
            timeout \in 1..MaxTimeout :
          LongPollStart(r, offset, limit, timeout)
    \/ LongPollStep
    \/ Return

SpecLong ==
    Init /\ [][NextLong]_vars /\ SF_vars(LongPollStep) /\ WF_vars(Return)

\* The per-user phase applied to a store drawn as its input: the rows of
\* one account, every upload on disk, the ledger equal to what is stored,
\* and the background thread at the start of the phase (api.py:277).  The
\* send path never lets a ledger pass the cap, so the states the phase is
\* written for are drawn here instead of reached through sends.
StoredFile(i) ==
    [id |-> i, message_id |-> i, message_type |-> "file",
     file_size |-> Some(MAX_FILE_SIZE),
     reply_to_message_id |-> None, reply_to_sender_id |-> None, reply_to_text |-> None,
     sender_id |-> "a", receiver_id |-> "b",
     sent_at |-> 0, sent_ord |-> i, is_delivered |-> FALSE, read_count |-> 0,
     webhook_sent |-> FALSE]

InitPhase ==
    \E k \in 0..MaxStored :
        /\ messages = {StoredFile(i) : i \in 1..k}
        /\ files = 1..k
        /\ users = [u \in Users |->
                      IF u = "a"
                      THEN [storage_used |-> k * MAX_FILE_SIZE, message_count |-> k]
                      ELSE [storage_used |-> 0, message_count |-> 0]]
        /\ now = 0
        /\ nextMid = k + 1
        /\ inserts = k
        /\ maxAssigned = k
        /\ inflight = {}
        /\ evictPc = "global"
        /\ lastEvict = NoEvict
        /\ client = [u \in Receivers |-> [cursor |-> None, seen |-> {}]]
        /\ lastPoll = NoPoll
        /\ hooks = {}
    /\ setting = {}
    /\ waiting = None
        /\ notify = {}
        /\ attempts = [i \in 1..MaxMsgs |-> 0]
        /\ replay = [u \in Receivers |-> NoReplay]
        /\ lastCall = NoCall

NextPhase ==
    \/ Tick
    \/ \E fid \in 1..MaxStored : LoseFile(fid)
    \/ ExpirySweep
    \/ GlobalPhase
    \/ PerUserPhase
    \/ Return

SpecPhase == InitPhase /\ [][NextPhase]_vars

\* The enforcement applied to a mixed store drawn as its input: files of
\* account a, which its ledger puts over the cap when there are two or
\* more, a file of account b, which is under the cap, and a text and a
\* reply without files, the rows of b and the texts sent before or after
\* the files of a; the thread is about to run either half of
\* enforce_storage_limits.
MixedRow(i, kind, s, r) ==
    [id |-> i, message_id |-> i, message_type |-> kind,
     file_size |-> IF kind = "file" THEN Some(MAX_FILE_SIZE) ELSE None,
     reply_to_message_id |-> IF kind = "reply" THEN Some(0) ELSE None,
     reply_to_sender_id |-> None, reply_to_text |-> None,
     sender_id |-> s, receiver_id |-> r,
     sent_at |-> 0, sent_ord |-> i, is_delivered |-> FALSE, read_count |-> 0,
     webhook_sent |-> FALSE]

MixedStore(k, othersFirst) ==
    LET base == IF othersFirst THEN 0 ELSE k
        shift == IF othersFirst THEN 3 ELSE 0
    IN {MixedRow(base + 1, "file", "b", "a"), MixedRow(base + 2, "text", "a", "b"),
        MixedRow(base + 3, "reply", "b", "a")}
       \cup {MixedRow(shift + i, "file", "a", "b") : i \in 1..k}

InitMixed ==
    \E k \in 0..MaxStored, othersFirst \in BOOLEAN, pc \in {"swept", "global"} :
        /\ messages = MixedStore(k, othersFirst)
        /\ files = {m.message_id : m \in {x \in messages : IsSome(x.file_size)}}
        /\ users = [u \in Users |->
                      IF u = "a"
                      THEN [storage_used |-> k * MAX_FILE_SIZE, message_count |-> k + 1]
                      ELSE [storage_used |-> MAX_FILE_SIZE, message_count |-> 2]]
        /\ now = 0
        /\ nextMid = k + 4
        /\ inserts = k + 3
        /\ maxAssigned = k + 3
        /\ inflight = {}
        /\ evictPc = pc
        /\ lastEvict = NoEvict
        /\ client = [u \in Receivers |-> [cursor |-> None, seen |-> {}]]
        /\ lastPoll = NoPoll
        /\ hooks = {}
        /\ setting = {}
        /\ waiting = None
        /\ notify = {}
        /\ attempts = [i \in 1..MaxMsgs |-> 0]
        /\ replay = [u \in Receivers |-> NoReplay]
        /\ lastCall = NoCall

NextMixed ==
    \/ Tick
    \/ \E fid \in 1..(MaxStored + 3) : LoseFile(fid)
    \/ ExpirySweep
    \/ GlobalPhase
    \/ PerUserPhase
    \/ Return

SpecMixed == InitMixed /\ [][NextMixed]_vars

\* ------------------------------------------------------------ properties
SentBy(u) == {m \in messages : m.sender_id = u}
StoredFor(r) == {m \in messages : m.receiver_id = r}
Polled == lastPoll # NoPoll
IdsOf(ret) == {p[2] : p \in ret}

\* C1: a client that starts polling and then always passes the next_offset
\* of its previous poll is never made to skip a message: every stored
\* message addressed to it that it has not been given yet is still among
\* the rows its coming polls return.
C1_NoSkip ==
    \A r \in Receivers :
        IsSome(client[r].cursor) =>
            \A m \in StoredFor(r) :
                m.message_id \notin client[r].seen =>
                    m \in Range(Updates(r, client[r].cursor, Cardinality(messages)))

\* C2: a poll with offset N returns no message whose id is <= N, and a poll
\* resumed from the next_offset of the client's previous poll returns no
\* message that client was already given.
C2_NoStaleNoDup ==
    Polled =>
        /\ IsSome(lastPoll.offset) => \A i \in IdsOf(lastPoll.ret) : i > Val(lastPoll.offset)
        /\ lastPoll.resumed => Mids(lastPoll.ret) \cap lastPoll.seenBefore = {}

\* a resumed poll has just answered while a message the client was given
\* before, with an id at or below the offset, is still in the store
C2_Witness ==
    /\ Polled /\ lastPoll.resumed
    /\ \E m \in StoredFor(lastPoll.rcv) :
          m.message_id \in lastPoll.seenBefore /\ m.id <= Val(lastPoll.offset)

\* C3: every account's storage_used equals the sum of the file sizes of the
\* stored messages it sent.
C3_StorageExact ==
    \A u \in Users : users[u].storage_used = get_total_storage_used(SentBy(u))

\* C4: every account's message_count equals the number of stored messages
\* it sent.
C4_CountExact ==
    \A u \in Users : users[u].message_count = Cardinality(SentBy(u))

\* C5: a row keeps the id it was given, and every newly inserted row gets an
\* id greater than every id handed out before.
C5_FreshIds ==
    [][\A m \in messages' :
          IF \E x \in messages : x.message_id = m.message_id
          THEN \E x \in messages : x.message_id = m.message_id /\ x.id = m.id
          ELSE m.id > maxAssigned]_vars

C7_GlobalCap ==
    /\ lastEvict.phase = "global" /\ lastEvict.totalBefore > MAX_TOTAL_STORAGE
          => get_total_storage_used(messages) <= MAX_TOTAL_STORAGE
    /\ lastEvict.phase = "user"
          => get_total_storage_used(messages) <= lastEvict.totalBefore

\* the global phase has just evicted from a store that was over the cap
C7_Witness ==
    /\ lastEvict.phase = "global"
    /\ lastEvict.totalBefore > MAX_TOTAL_STORAGE
    /\ lastEvict.deleted # {}

\* C8: when the expiry sweep has completed, no message sent earlier than the
\* retention window before the sweep is left, of any type, with or without
\* its upload on disk.
C8_NoExpiredLeft ==
    lastEvict.phase = "sweep" =>
        \A m \in messages : m.sent_at >= now - MESSAGE_AUTO_DELETE_HOURS

\* the sweep has just deleted a message without a file and a file message
\* whose upload was no longer on disk, and kept a younger message
C8_Witness ==
    /\ lastEvict.phase = "sweep"
    /\ \E d \in lastEvict.deleted : d.msg.message_type # "file"
    /\ \E d \in lastEvict.deleted : d.msg.message_type = "file" /\ ~d.onDisk

\* C9: every step that deletes rows removes their uploads from disk and
\* debits each sender by exactly what its deleted rows held: their file
\* sizes from storage_used and their number from message_count, each
\* clamped at zero.
C9_DeletionDebits ==
    [][\A u \in Users :
          LET gone == {m \in SentBy(u) :
                          \A x \in messages' : x.message_id # m.message_id}
          IN gone # {} =>
              /\ \A m \in gone : m.message_id \notin files'
              /\ users'[u].storage_used =
                    Max2(0, users[u].storage_used - SumSizes(gone))
              /\ users'[u].message_count =
                    Max2(0, users[u].message_count - Cardinality(gone))]_vars

\* C10: next_offset is the largest returned id plus one when the poll
\* returns messages; otherwise it is the offset given, or 0 without one.
C10_NextOffset ==
    Polled =>
        IF lastPoll.ret # {}
        THEN \E i \in IdsOf(lastPoll.ret) :
                /\ \A j \in IdsOf(lastPoll.ret) : j <= i
                /\ lastPoll.next_offset = i + 1
        ELSE lastPoll.next_offset =
                (IF IsSome(lastPoll.offset) THEN Val(lastPoll.offset) ELSE 0)

\* a poll with an offset has just returned messages, one of them not the
\* lowest-numbered
C10_Witness ==
    /\ Polled /\ IsSome(lastPoll.offset)
    /\ Cardinality(lastPoll.ret) >= 2

\* C11: a send that answers an error leaves no message, no change of the
\* sender's storage_used and message_count, and no file of that request in
\* the upload folder.
C11_NoResidue ==
    [][(lastCall = NoCall /\ lastCall'.op \in {"sendMessage", "sendFile"}
            /\ ~lastCall'.success)
        => /\ messages' = messages
           /\ users' = users
           /\ lastCall'.message_id \notin files']_vars

\* C12: a sendFile that names a receiver is answered "Storage limit
\* exceeded" exactly when its file passes the size check and storage_used
\* plus the file size is over the per-user cap, and then nothing changes;
\* a send is accepted only at or under the cap, and one accepted at exactly
\* the cap commits storage_used equal to the cap.
C12_QuotaBoundary ==
    [][/\ (lastCall = NoCall /\ lastCall'.op = "sendFile" /\ lastCall'.message_id = 0
            /\ lastCall'.receiver_id # "")
          => /\ (lastCall'.error = "Storage limit exceeded")
                  <=> (/\ lastCall'.file_size <= MAX_FILE_SIZE
                       /\ lastCall'.storage_used + lastCall'.file_size > MAX_USER_STORAGE)
             /\ lastCall'.error = "Storage limit exceeded"
                  => UNCHANGED <<users, messages, files, inflight, notify>>
       /\ \A q \in inflight' \ inflight :
             q.kind = "file" => q.read_storage + Size(q) <= MAX_USER_STORAGE
       /\ \A q \in inflight \ inflight' :
             (/\ q.kind = "file"
              /\ \E m \in messages' : m.message_id = q.message_id
              /\ q.read_storage + Size(q) = MAX_USER_STORAGE)
             => users'[q.sender_id].storage_used = MAX_USER_STORAGE]_vars

\* a send is refused for quota by an account that an earlier send, accepted
\* at exactly the cap, has filled
C12_Witness ==
    /\ lastCall.op = "sendFile"
    /\ lastCall.error = "Storage limit exceeded"
    /\ lastCall.storage_used = MAX_USER_STORAGE
    /\ \E m \in messages : IsSome(m.file_size) /\ Size(m) < MAX_USER_STORAGE

\* C13: with the cap at 100 MiB, an account with 60 MiB used has a send of
\* a 40 MiB file accepted and a send of a 41 MiB file rejected.
C13_Boundary40 ==
    (lastCall.op = "sendFileMiB" /\ lastCall.used = 60) =>
        /\ lastCall.size = 40 => lastCall.error = "none"
        /\ lastCall.size = 41 => lastCall.error # "none"

\* C13, amended: with the cap at 100 MiB, an account with 80 MiB used has a
\* send of a 20 MiB file accepted and a send of a 21 MiB file rejected for
\* quota.
C13_Boundary20 ==
    (lastCall.op = "sendFileMiB" /\ lastCall.used = 80) =>
        /\ lastCall.size = 20 => lastCall.error = "none"
        /\ lastCall.size = 21 => lastCall.error = "Storage limit exceeded"

\* the send that lands exactly on the cap has been answered
C13_Witness ==
    lastCall.op = "sendFileMiB" /\ lastCall.used = 80 /\ lastCall.size = 20

C17_DeliveredOnce ==
    [][(lastPoll = NoPoll /\ lastPoll' # NoPoll) =>
          \A m \in messages :
              IF <<m.message_id, m.id>> \in lastPoll'.ret
              THEN [m EXCEPT !.is_delivered = TRUE,
                             !.read_count = m.read_count + (IF m.is_delivered THEN 0 ELSE 1)]
                       \in messages'
              ELSE m \in messages']_vars

\* a poll with offset 0 has returned, next to another message, one that
\* the resuming client was given by an earlier poll: its read_count is
\* still 1
C17_Witness ==
    /\ Polled /\ ~lastPoll.resumed /\ lastPoll.offset = Some(0)
    /\ Cardinality(lastPoll.ret) >= 2
    /\ \E m \in messages : /\ <<m.message_id, m.id>> \in lastPoll.ret
                            /\ m.message_id \in client[lastPoll.rcv].seen
                            /\ m.read_count = 1

\* C18: a poll without offset returns again every message that the same
\* client's previous poll without offset, with the same limit, returned,
\* when those messages are all still stored: being delivered does not take
\* a message out of the result.
C18_Replay ==
    (Polled /\ lastPoll.offset = None
        /\ \A t \in lastPoll.seenBefore : \E m \in messages : m.message_id = t)
    => lastPoll.seenBefore \subseteq Mids(lastPoll.ret)

\* a second poll without offset has returned the delivered messages of the
\* first, the receiver having more messages than the first returned
C18_Witness ==
    /\ Polled /\ lastPoll.offset = None
    /\ lastPoll.seenBefore # {}
    /\ \A t \in lastPoll.seenBefore : \E m \in messages : m.message_id = t
    /\ Cardinality(StoredFor(lastPoll.rcv)) > Cardinality(lastPoll.seenBefore)

\* the rows without their webhook_sent flag
SendState(msgs) == {[m EXCEPT !.webhook_sent = FALSE] : m \in msgs}

\* C15: no message is ever posted for more than once, whatever the endpoint
\* answers; the thread of a send to a receiver that had a registration
\* posts exactly once; before its thread has run nothing is posted for a
\* message; and a notification, successful or not, changes neither the
\* ledger nor anything of the stored messages but the webhook_sent flag.
C15_OneAttempt ==
    /\ [](/\ \A i \in DOMAIN attempts : attempts[i] <= 1
          /\ \A t \in notify : attempts[t.message_id] = 0
          /\ (lastCall.op = "notify" /\ lastCall.hooked)
                => attempts[lastCall.message_id] = 1)
    /\ [][(lastCall = NoCall /\ lastCall'.op = "notify")
            => /\ users' = users
               /\ SendState(messages') = SendState(messages)
               /\ UNCHANGED <<files, inflight, inserts>>]_vars

\* the thread of a send to a registered receiver has posted and the
\* endpoint failed
C15_Witness ==
    /\ lastCall.op = "notify" /\ lastCall.hooked /\ lastCall.posted
    /\ lastCall.outcome # "200"
    /\ attempts[lastCall.message_id] = 1

\* C16: a notification whose post did not succeed (another status than 200,
\* or no response) leaves the webhook_sent flags and last_triggered as they
\* were.
C16_FlagOnlyOnSuccess ==
    [][(lastCall = NoCall /\ lastCall'.op = "notify" /\ lastCall'.posted
            /\ lastCall'.outcome # "200")
        => /\ messages' = messages
           /\ hooks' = hooks]_vars

ReplyFields(m) == <<m.reply_to_message_id, m.reply_to_sender_id, m.reply_to_text>>

\* C19: a send_message whose reply_to_message_id names no stored message is
\* taken on with reply_to_sender_id and reply_to_text null; its commit
\* stores a row of type reply with the fields as captured and writes the
\* sender's message_count as the count the handler read plus one; and no
\* later step, a deletion of the target included, changes the reply fields
\* of a stored row.
C19_ReplyCaptured ==
    [][/\ \A q \in inflight' \ inflight :
             (/\ IsSome(q.reply_to_message_id)
              /\ \A m \in messages : m.message_id # Val(q.reply_to_message_id))
             => q.reply_to_sender_id = None /\ q.reply_to_text = None
       /\ \A q \in inflight \ inflight' :
             (q.kind = "text" /\ IsSome(q.reply_to_message_id))
             => /\ \E m \in messages' \ messages :
                      /\ m.message_id = q.message_id
                      /\ m.message_type = "reply"
                      /\ ReplyFields(m) = ReplyFields(q)
                /\ users'[q.sender_id].message_count = q.read_count + 1
       /\ \A m \in messages, n \in messages' :
             m.message_id = n.message_id => ReplyFields(n) = ReplyFields(m)]_vars

\* a reply is stored that names the token of an earlier send whose message
\* was not in the store at the lookup and is not there now, its captured
\* sender and preview null, and its sender counted
C19_Witness ==
    \E m \in messages :
        /\ m.message_type = "reply"
        /\ Val(m.reply_to_message_id) \in 1..(m.message_id - 1)
        /\ \A x \in messages \cup inflight : x.message_id # Val(m.reply_to_message_id)
        /\ m.reply_to_sender_id = None /\ m.reply_to_text = None
        /\ users[m.sender_id].message_count >= 1

Parties(m) == {m.sender_id, m.receiver_id}

\* C20: a poll returns only messages addressed to the caller; a history
\* returns only messages between the caller and the user it names; a
\* download succeeds only for the sender or the receiver of the message
\* owning the file, and is answered "Access denied", with nothing changed,
\* exactly when the file exists and the caller is neither.
C20_OnlyParties ==
    /\ [](/\ Polled =>
               \A m \in messages :
                   <<m.message_id, m.id>> \in lastPoll.ret => m.receiver_id = lastPoll.rcv
          /\ lastCall.op = "history" =>
               \A m \in messages :
                   m.message_id \in lastCall.ret =>
                       Parties(m) = {lastCall.caller, lastCall.other}
          /\ lastCall.op = "download" =>
               LET own == {m \in messages : m.message_type = "file"
                                               /\ m.message_id = lastCall.file_id}
               IN /\ lastCall.result = "ok" =>
                        \A m \in own : lastCall.caller \in Parties(m)
                  /\ lastCall.result = "Access denied" <=>
                        \E m \in own : lastCall.caller \notin Parties(m))
    /\ [][(lastCall = NoCall /\ lastCall'.op = "download"
               /\ lastCall'.result = "Access denied")
            => UNCHANGED <<users, messages, files, inflight, notify>>]_vars

\* an account has been refused a file that is on disk and belongs to a
\* message between other parties
C20_Witness ==
    /\ lastCall.op = "download" /\ lastCall.result = "Access denied"
    /\ lastCall.file_id \in files
    /\ \E m \in messages : m.message_id = lastCall.file_id
                            /\ lastCall.caller \notin Parties(m)

\* C21: whatever raises inside a cycle, the background thread goes on: again
\* and again it is back at the start of a cycle and again and again the
\* first phase of a cycle has run.
C21_CyclesForever ==
    /\ []<>(evictPc = "sleep")
    /\ []<>(evictPc = "swept")

\* the sweep has just raised after removing the upload of an expired
\* message whose row is therefore still stored, and the thread is on its
\* way to the enforcement
C21_Witness ==
    /\ lastEvict.phase = "error"
    /\ evictPc = "swept"
    /\ \E m \in messages : IsSome(m.file_size) /\ ~OnDisk(m) /\ Expired(m)

C23_OneRegistration ==
    /\ \A u \in Users : Cardinality({h \in hooks : h.user_id = u}) <= 1
    /\ (lastCall.op = "setWebhook" /\ lastCall.success) =>
          /\ \E h \in hooks : h.user_id = lastCall.user_id
          /\ \A h \in hooks :
                h.user_id = lastCall.user_id =>
                    /\ h.webhook_url = lastCall.endpoint.url
                    /\ h.secret_token = lastCall.endpoint.secret_token

\* set_webhook has just answered success to a user whose earlier
\* registration it deleted, next to the registration of the other user
C23_Witness ==
    /\ lastCall.op = "setWebhook" /\ lastCall.success
    /\ lastCall.replaced # {}
    /\ \E h \in hooks : h.user_id # lastCall.user_id

\* C24: a stored message is changed only by a poll, in its is_delivered
\* flag and read_count, and by the notifier, in its webhook_sent flag: no
\* other step, a download or a history request included, changes a field
\* of a stored message.
C24_OnlyPollAndNotify ==
    [][\A m \in messages : \A x \in messages' :
          (x.message_id = m.message_id /\ x # m) =>
              \/ /\ lastPoll = NoPoll /\ lastPoll' # NoPoll
                 /\ x = [m EXCEPT !.is_delivered = x.is_delivered,
                                  !.read_count = x.read_count]
              \/ /\ lastCall = NoCall /\ lastCall'.op = "notify"
                 /\ x = [m EXCEPT !.webhook_sent = x.webhook_sent]]_vars

\* C25: a sendFile whose file is over the single-file limit is refused and
\* changes nothing, whatever the sender has stored; a sendFile that names
\* a receiver is answered "File size exceeds 30MB limit" exactly when its
\* file is over the limit, so a file of exactly the limit passes this test;
\* and no file over the limit is taken on.
C25_SizeLimit ==
    [][/\ (lastCall = NoCall /\ lastCall'.op = "sendFile" /\ lastCall'.message_id = 0)
          => /\ lastCall'.receiver_id # "" =>
                  ((lastCall'.error = "File size exceeds 30MB limit")
                      <=> lastCall'.file_size > MAX_FILE_SIZE)
             /\ lastCall'.file_size > MAX_FILE_SIZE
                  => UNCHANGED <<users, messages, files, inflight, notify, nextMid>>
       /\ \A q \in inflight' \ inflight :
             q.kind = "file" => Size(q) <= MAX_FILE_SIZE]_vars

\* a file over the limit has been refused for its size although the
\* sender had the quota for it, while a file of exactly the limit has been
\* taken on
C25_Witness ==
    /\ lastCall.op = "sendFile" /\ lastCall.message_id = 0
    /\ lastCall.error = "File size exceeds 30MB limit"
    /\ lastCall.storage_used + lastCall.file_size <= MAX_USER_STORAGE
    /\ \E q \in inflight : q.kind = "file" /\ Size(q) = MAX_FILE_SIZE

\* C26: when the global phase has deleted a file message, no file message
\* sent earlier, of any sender, is left in the store: what the phase
\* evicts is a prefix of the file messages in the order they were sent.
C26_OldestFirst ==
    lastEvict.phase = "global" =>
        \A d \in lastEvict.deleted : \A m \in messages :
            IsSome(m.file_size) =>
                /\ m.sent_ord > d.msg.sent_ord
                /\ m.sent_at >= d.msg.sent_at

\* the global phase has just deleted the file of one sender and left a
\* file of another sender that was sent later
C26_Witness ==
    /\ lastEvict.phase = "global"
    /\ \E d \in lastEvict.deleted : \E m \in messages :
          /\ IsSome(m.file_size)
          /\ m.sender_id # d.msg.sender_id
          /\ m.sent_ord > d.msg.sent_ord

\* C27: the global phase deletes a message only if the file sizes of the
\* file messages still stored just before that deletion sum to more than
\* the global cap, whether or not the uploads are on disk.
C27_NoMoreThanNeeded ==
    lastEvict.phase = "global" =>
        \A d \in lastEvict.deleted :
            LET earlier == {x.msg : x \in {y \in lastEvict.deleted :
                                              y.msg.sent_ord < d.msg.sent_ord}}
            IN lastEvict.totalBefore - get_total_storage_used(earlier) > MAX_TOTAL_STORAGE

\* C28: a poll returns at most limit messages, in strictly ascending order
\* of id, and they are the lowest eligible ones: when a stored message of
\* the caller above the offset is not returned, the poll has returned
\* exactly limit messages, all with smaller ids.
C28_LowestUpToLimit ==
    Polled =>
        /\ Len(lastPoll.ids) <= lastPoll.limit
        /\ \A i \in 1..(Len(lastPoll.ids) - 1) : lastPoll.ids[i] < lastPoll.ids[i + 1]
        /\ \A m \in messages :
              (Eligible(m, lastPoll.rcv, lastPoll.offset)
                  /\ m.id \notin IdsOf(lastPoll.ret))
              => /\ Len(lastPoll.ids) = lastPoll.limit
                 /\ \A i \in 1..Len(lastPoll.ids) : lastPoll.ids[i] < m.id

\* a poll with limit 1 and an offset has returned one message and left
\* out another message of the caller above the offset
C28_Witness ==
    /\ Polled /\ lastPoll.limit = 1 /\ IsSome(lastPoll.offset)
    /\ Len(lastPoll.ids) = 1
    /\ \E m \in messages :
          Eligible(m, lastPoll.rcv, lastPoll.offset) /\ m.id \notin IdsOf(lastPoll.ret)

C30_QuotaUnderConcurrency ==
    \A u \in Users : get_total_storage_used(SentBy(u)) <= MAX_USER_STORAGE

\* C31: the two halves of enforce_storage_limits delete only messages with
\* a file, the per-user half only messages sent by an account whose
\* storage_used was over the cap, and a message without a file leaves the
\* store only in a step of the expiry sweep.
C31_EnforcementFrame ==
    /\ [](/\ lastEvict.phase \in {"global", "user"}
               => \A d \in lastEvict.deleted :
                     IsSome(d.msg.file_size) /\ d.msg.message_type = "file"
          /\ lastEvict.phase = "user"
               => \A d \in lastEvict.deleted :
                     lastEvict.usersBefore[d.msg.sender_id].storage_used
                        > MAX_USER_STORAGE)
    /\ [][\A m \in messages :
             (m.file_size = None /\ \A x \in messages' : x.message_id # m.message_id)
             => lastEvict'.phase = "sweep"]_vars

\* the per-user half has just deleted a file of the account over the cap
\* and left that account's text, the other account's reply and the other
\* account's file, which was sent earlier than the deleted one
C31_Witness ==
    /\ lastEvict.phase = "user"
    /\ \E d \in lastEvict.deleted :
          /\ \E m \in messages : m.sender_id = d.msg.sender_id /\ m.message_type = "text"
          /\ \E m \in messages : m.sender_id # d.msg.sender_id /\ m.message_type = "reply"
          /\ \E m \in messages :
                /\ m.sender_id # d.msg.sender_id /\ IsSome(m.file_size)
                /\ m.sent_ord < d.msg.sent_ord

====
